---- MODULE Spec2Model ----
(***************************************************************************)
(* Model of src/prediction_handler.py: the LoopingThread interval          *)
(* scheduler and the PredictionHandler that runs a prediction cycle and a  *)
(* persistence merger on two LoopingThreads next to the acquisition        *)
(* thread and the main thread.                                             *)
(*                                                                         *)
(* Time is counted in ticks, TicksPerSecond ticks to the second, so that   *)
(* intervals that are not whole seconds can be written.  A time.sleep(d)   *)
(* takes exactly d; every other statement takes no time.                   *)
(***************************************************************************)
EXTENDS Integers, Sequences, FiniteSets, TLC

\* ------------------------------------------------------------------ bounds
\* resolution of the clock: ticks to the second
TicksPerSecond == 2
\* largest wait_time (in ticks) a LoopingThread is constructed with in TimerSpec
MaxWait == 7
\* the clock (in ticks) stops advancing here in TimerSpec
MaxTimerTime == 16
\* the clock (in ticks) stops advancing here in Spec, unless a stopped thread
\* is still inside its last wait slice
MaxTime == 60
\* samples the acquisition thread delivers in a run
MaxReadings == 7
\* MergeSpec: longest stream and longest RiskSeries save_all_data is given
MaxRows == 3
MaxCycles == 3
\* SnapshotSpec: longest stream get_current_attributes is given
MaxSamples == 2

\* ------------------------------------------------------------------ state
VARIABLES
    now,        \* time.time(), in ticks
    lt,         \* the LoopingThread objects: name -> fields and position in run()
    hist,       \* per LoopingThread: observations used by the properties
    streams,    \* monitor.*_stream: name -> sequence of samples [t, v]
    acq,        \* the acquisition thread of the monitor
    series,     \* the four RiskSeries: column name -> sequence of [t, v]
    mp,         \* the frame of make_prediction (run by prediciton_thread only)
    sv,         \* the frames of save_all_data, one per calling thread
    file,       \* the contents of data_save_file
    main,       \* the main thread's position in test() / stop_all_threads()
    obs         \* counters of what the prediction cycle has done, and what
                \* TimerSpec's stop() found

vars == <<now, lt, hist, streams, acq, series, mp, sv, file, main, obs>>
sysVars == <<streams, acq, series, mp, sv, file, main, obs>>

Min(S) == CHOOSE x \in S : \A y \in S : x <= y
Max(S) == CHOOSE x \in S : \A y \in S : x >= y

\* ------------------------------------------------------- streams and series
\* The values of stream_dict in get_current_attributes, in the order the
\* dictionary lists them.
StreamOrder ==
    <<"HR_stream", "ETemp_stream", "EHumid_stream", "STemp_stream",
      "GSR_stream", "Acc_stream", "Skin_stream">>

StreamNames == {StreamOrder[k] : k \in 1..Len(StreamOrder)}

\* stream_dict: attribute field -> the monitor's stream
stream_dict ==
    [f \in {"Heart / Pulse rate (b/min)", "Environmental temperature (C)",
            "Relative Humidity", "Skin Temperature", "Sweating", "Acceleration",
            "Skin color (flushed/normal=1, pale=0.5, cyatonic=0)"} |->
        CASE f = "Heart / Pulse rate (b/min)" -> "HR_stream"
          [] f = "Environmental temperature (C)" -> "ETemp_stream"
          [] f = "Relative Humidity" -> "EHumid_stream"
          [] f = "Skin Temperature" -> "STemp_stream"
          [] f = "Sweating" -> "GSR_stream"
          [] f = "Acceleration" -> "Acc_stream"
          [] OTHER -> "Skin_stream"]

\* self.user_fields
user_fields ==
    {"Age", "Sex", "Weight (kg)", "BMI", "Height (cm)", "Nationality",
     "Cardiovascular disease history", "Sickle Cell Trait (SCT)"}

\* user.get_user_attributes(): the static profile of the monitored user
get_user_attributes == [f \in user_fields |-> 1]

\* the four RiskSeries appended to in the order save_all_data writes them
AppendOrder_as_saved == <<"Risk", "HI Risk", "CT Risk", "LR Risk">>

\* The four RiskSeries, named by the column save_all_data writes them to, in
\* the order make_prediction appends to them.
AppendOrder == <<"Risk", "CT Risk", "HI Risk", "LR Risk">>
RiskNames == {AppendOrder[k] : k \in 1..Len(AppendOrder)}

\* pd.Series: keys(), values, size, iloc[-1]
keys(s) == [k \in 1..Len(s) |-> s[k].t]
values(s) == [k \in 1..Len(s) |-> s[k].v]
size(s) == Len(s)
Last(s) == s[Len(s)]

\* set_value enlarging the series at its front
set_value_front(s, label, value) == <<[t |-> label, v |-> value]>> \o s

\* pd.Series.set_value(label, value): overwrite the entry of an existing
\* label, else enlarge the series by one entry at its end.
set_value(s, label, value) ==
    IF \E k \in 1..Len(s) : s[k].t = label
    THEN [k \in 1..Len(s) |-> IF s[k].t = label THEN [t |-> label, v |-> value]
                                               ELSE s[k]]
    ELSE Append(s, [t |-> label, v |-> value])

\* stream.iloc[-1] raises IndexError on an empty stream, for the first empty
\* stream of stream_dict; make_prediction's bare except turns it into a skip.
InsufficientData(str) == \E f \in DOMAIN stream_dict : str[stream_dict[f]] = <<>>

\* get_current_attributes() taking stream.iloc[0], the oldest sample
get_current_attributes_oldest(str) ==
    [f \in user_fields \cup DOMAIN stream_dict \cup {"Exposure to sun"} |->
        IF f \in DOMAIN stream_dict THEN str[stream_dict[f]][1].v
        ELSE IF f = "Exposure to sun" THEN 0
        ELSE get_user_attributes[f]]

\* get_current_attributes(), when no stream is empty
get_current_attributes(str) ==
    [f \in user_fields \cup DOMAIN stream_dict \cup {"Exposure to sun"} |->
        IF f \in DOMAIN stream_dict THEN Last(str[stream_dict[f]]).v
        ELSE IF f = "Exposure to sun" THEN 0
        ELSE get_user_attributes[f]]

\* predictor.make_prediction(user_attributes, HR_stream, STemp_stream, each=True):
\* a function of its arguments giving (CT_prob, HI_prob, LR_prob, risk) as
\* percentages.
predictor_make_prediction(attrs, hr, st) ==
    LET ct == (attrs["Heart / Pulse rate (b/min)"] + Last(hr).v + Last(st).v) % 101
        hi == (attrs["Environmental temperature (C)"] + attrs["Relative Humidity"]) % 101
        lr == (attrs["Skin Temperature"] + attrs["Sweating"] + attrs["Age"]) % 101
    IN  <<ct, hi, lr, (ct + hi + lr) \div 3>>

\* predictor.estimate_core_temperature(HR_stream, 37.6): one estimate per
\* heart-rate sample, keyed by the sample's time (tenths of a degree).
BaselineCT == 376
estimate_core_temperature(hr, baseline) ==
    [k \in 1..Len(hr) |-> [t |-> hr[k].t, v |-> baseline + k]]

\* ------------------------------------------------------------ merged table
Empty == -1     \* np.NAN: a cell that holds nothing

SeriesColumns == <<"Risk", "HI Risk", "CT Risk", "LR Risk", "est CT">>
Columns ==
    UNION {{SeriesColumns[k], "time " \o SeriesColumns[k]} : k \in 1..Len(SeriesColumns)}

NoTable == [rows |-> 0, cols |-> [c \in Columns |-> <<>>]]

MaxLen(str) == Max({Len(str[n]) : n \in DOMAIN str})

\* monitor.get_compiled_df(): a fresh table with one row per sample index of
\* the raw streams and none of the risk columns
get_compiled_df(str) == [rows |-> MaxLen(str), cols |-> [c \in Columns |-> <<>>]]

\* The ten assignments of save_all_data, in order:
\* <<series read, column written, what is read from the series>>
SaveLines ==
    << <<"Risk", "time Risk", "keys">>,       <<"Risk", "Risk", "values">>,
       <<"HI Risk", "time HI Risk", "keys">>, <<"HI Risk", "HI Risk", "values">>,
       <<"CT Risk", "time CT Risk", "keys">>, <<"CT Risk", "CT Risk", "values">>,
       <<"LR Risk", "time LR Risk", "keys">>, <<"LR Risk", "LR Risk", "values">>,
       <<"est CT", "time est CT", "keys">>,   <<"est CT", "est CT", "values">> >>

\* df.loc[range(n), col] = data, when range(n) lies inside the index and data
\* has n entries: rows 0..n-1 of the column take data, the other rows keep
\* what the column held, NaN when the column is new.
SetColumn(df, n, col, data) ==
    LET old == df.cols[col]
    IN  [df EXCEPT !.cols[col] =
            [k \in 1..df.rows |-> IF k <= n THEN data[k]
                                  ELSE IF k <= Len(old) THEN old[k] ELSE Empty]]

\* df.loc[range(n), col] = data raises when a label of range(n) is not in the
\* index (KeyError) or when data does not have n entries (ValueError)
SetColumnRaises(df, n, data) == n > df.rows \/ Len(data) # n

NoSave == [pc |-> "idle", line |-> 0, df |-> NoTable, core |-> <<>>]
NoPrediction == [pc |-> "idle", attrs |-> <<>>, tup |-> <<0, 0, 0, 0>>, now |-> 0]

NoObs ==
    [mp_ok |-> 0,            \* make_prediction calls that got their attributes
     mp_skipped |-> 0,       \* make_prediction calls that hit InsufficientData
     predictor_calls |-> 0,  \* calls of predictor.make_prediction
     stop_pc |-> "none",     \* TimerSpec: where in run() the first stop() on
                             \* the live thread found it
     stop_i |-> 0,           \* wait slices of the interval completed by then
     calls_at_stop |-> 0]    \* callback invocations begun by then

\* ---------------------------------------------------------- LoopingThread
\* self.loop_wait = wait_time: the whole interval slept in one call
loop_wait_whole(wait_time) == wait_time

\* self.loop_wait = 1 if wait_time > 1 else wait_time
loop_wait(wait_time) ==
    IF wait_time > TicksPerSecond THEN TicksPerSecond ELSE wait_time

\* self.num_loops = int(wait_time / self.loop_wait)
num_loops(wait_time) == wait_time \div loop_wait(wait_time)

\* LoopingThread.__init__(callback, wait_time); pc "new" = constructed, not started
LoopingThread(callback, wait_time) ==
    [callback   |-> callback,
     wait_time  |-> wait_time,
     loop_wait  |-> loop_wait(wait_time),
     num_loops  |-> num_loops(wait_time),
     is_running |-> TRUE,
     pc         |-> "new",
     i          |-> 0,
     wake       |-> 0]

NoHist ==
    [stop_at |-> -1,            \* time of the first stop() on a live thread
     slices_after_stop |-> 0,   \* wait slices completed since then
     slept |-> 0,               \* sum of the wait slices since start / last callback
     calls |-> 0,               \* callback invocations begun
     late |-> FALSE,            \* a callback began later than stop_at + 1 second
     call_at |-> -1,            \* time the last callback began
     started_at |-> 0,          \* time of start()
     crashed |-> FALSE]         \* an exception of the callback ended the thread

Threads == DOMAIN lt
Alive(th) == lt[th].pc \notin {"new", "dead"}

\* Position reached when entering the body of `for _ in range(num_loops)`:
\* the next iteration's stop check, or the callback when the range is used up.
AfterIteration(t, k) == IF k < t.num_loops THEN "check" ELSE "call"

\* Thread.start()
Start(th) ==
    /\ lt[th].pc = "new"
    /\ lt' = [lt EXCEPT ![th].pc = "while"]
    /\ hist' = [hist EXCEPT ![th].started_at = now]

\* stop() that leaves the flag as it is
stop_lost(th) == lt' = lt /\ hist' = hist

\* LoopingThread.stop(): self._is_running = False
stop(th) ==
    /\ lt' = [lt EXCEPT ![th].is_running = FALSE]
    /\ hist' = [hist EXCEPT ![th].stop_at =
                   IF Alive(th) /\ hist[th].stop_at = -1 THEN now ELSE @]

\* run(): `while True:`, the flag left to the check between the slices
RunWhile_ignores_flag(th) ==
    /\ lt[th].pc = "while"
    /\ lt' = [lt EXCEPT ![th].pc = AfterIteration(lt[th], 0), ![th].i = 0]
    /\ UNCHANGED <<now, hist, sysVars>>

\* run(): `while self._is_running:`
RunWhile(th) ==
    /\ lt[th].pc = "while"
    /\ lt' = [lt EXCEPT ![th].pc = IF lt[th].is_running
                                   THEN AfterIteration(lt[th], 0) ELSE "dead",
                        ![th].i = 0]
    /\ UNCHANGED <<now, hist, sysVars>>

\* run(): time.sleep(loop_wait) entered with no check of the flag before it
RunCheck_no_check(th) ==
    /\ lt[th].pc = "check"
    /\ lt' = [lt EXCEPT ![th].pc = "sleep", ![th].wake = now + lt[th].loop_wait]
    /\ UNCHANGED <<now, hist, sysVars>>

\* run(): `if not self._is_running: return` then entering time.sleep(loop_wait)
RunCheck(th) ==
    /\ lt[th].pc = "check"
    /\ lt' = [lt EXCEPT ![th].pc = IF lt[th].is_running THEN "sleep" ELSE "dead",
                        ![th].wake = IF lt[th].is_running
                                     THEN now + lt[th].loop_wait ELSE @]
    /\ UNCHANGED <<now, hist, sysVars>>

\* run(): time.sleep(loop_wait) returns, the for loop advances
RunWake(th) ==
    /\ lt[th].pc = "sleep"
    /\ now >= lt[th].wake
    /\ lt' = [lt EXCEPT ![th].i = @ + 1,
                        ![th].pc = AfterIteration(lt[th], lt[th].i + 1)]
    /\ hist' = [hist EXCEPT
                  ![th].slept = @ + lt[th].loop_wait,
                  ![th].slices_after_stop =
                      IF hist[th].stop_at # -1 THEN @ + 1 ELSE @]
    /\ UNCHANGED <<now, sysVars>>

\* Bookkeeping when `self.callback()` is entered
CallBegins(th) ==
    [hist EXCEPT ![th].calls = @ + 1,
                 ![th].call_at = now,
                 ![th].late = @ \/ (hist[th].stop_at # -1
                                     /\ now > hist[th].stop_at + TicksPerSecond)]

\* Bookkeeping when `self.callback()` has returned
CallReturns(h, th) == [h EXCEPT ![th].slept = 0]

\* The frame of the callback of thread th has run to its return / has raised
CallbackReturned(th) ==
    CASE lt[th].callback = "make_prediction" -> mp.pc = "done"
      [] lt[th].callback = "save_all_data" -> sv[th].pc = "done"
      [] OTHER -> TRUE

CallbackRaised(th) == lt[th].callback = "save_all_data" /\ sv[th].pc = "raised"

\* run(): `self.callback()` is entered
RunCall(th) ==
    /\ lt[th].pc = "call"
    /\ lt' = [lt EXCEPT ![th].pc = "called"]
    /\ hist' = CallBegins(th)
    /\ mp' = IF lt[th].callback = "make_prediction"
             THEN [mp EXCEPT !.pc = "attrs"] ELSE mp
    /\ sv' = IF lt[th].callback = "save_all_data"
             THEN [sv EXCEPT ![th].pc = "begin"] ELSE sv
    /\ UNCHANGED <<now, streams, acq, series, file, main, obs>>

\* run(): the callback has returned; back to the `while` test
RunReturn(th) ==
    /\ lt[th].pc = "called"
    /\ CallbackReturned(th)
    /\ lt' = [lt EXCEPT ![th].pc = "while"]
    /\ hist' = CallReturns(hist, th)
    /\ mp' = IF lt[th].callback = "make_prediction" THEN NoPrediction ELSE mp
    /\ sv' = IF lt[th].callback = "save_all_data"
             THEN [sv EXCEPT ![th] = NoSave] ELSE sv
    /\ UNCHANGED <<now, streams, acq, series, file, main, obs>>

\* run() with a handler around the callback: the exception is dropped and the
\* loop goes on
RunRaise_contained(th) ==
    /\ lt[th].pc = "called"
    /\ CallbackRaised(th)
    /\ lt' = [lt EXCEPT ![th].pc = "while"]
    /\ hist' = [CallReturns(hist, th) EXCEPT ![th].crashed = TRUE]
    /\ sv' = [sv EXCEPT ![th] = NoSave]
    /\ UNCHANGED <<now, streams, acq, series, mp, file, main, obs>>

\* run(): the callback raised; run() has no handler, the exception leaves
\* run() and the thread ends
RunRaise(th) ==
    /\ lt[th].pc = "called"
    /\ CallbackRaised(th)
    /\ lt' = [lt EXCEPT ![th].pc = "dead"]
    /\ hist' = [hist EXCEPT ![th].crashed = TRUE]
    /\ sv' = [sv EXCEPT ![th] = NoSave]
    /\ UNCHANGED <<now, streams, acq, series, mp, file, main, obs>>

\* Time passes while some LoopingThread is inside time.sleep, none is due or
\* executing, and the main thread is blocked in input() or in the sleep of
\* the wait loop: the clock moves d ticks, never past a wake-up and never past
\* the limit, except to let a stopped thread finish the wait slice it is in;
\* a run is not followed beyond the death of the main thread.
Sleeping(th) == lt[th].pc = "sleep" /\ now < lt[th].wake
Computing(th) == Alive(th) /\ ~Sleeping(th)
MainBlocked == main.pc \in {"input", "wait"}
NextWake == Min({lt[th].wake : th \in {x \in Threads : Sleeping(x)}})

\* the time until the next wake-up, when some thread sleeps
TimeToWake == IF \E th \in Threads : Sleeping(th) THEN {NextWake - now} ELSE {}

Tick(limit, d) ==
    /\ \/ now + d <= limit
       \/ \E th \in Threads : Sleeping(th) /\ ~lt[th].is_running
    /\ \E th \in Threads : Sleeping(th)
    /\ \A th \in Threads : ~Computing(th)
    /\ MainBlocked
    /\ d >= 1
    /\ now + d <= NextWake
    /\ now' = now + d
    /\ UNCHANGED <<lt, hist, sysVars>>

\* ------------------------------------------------- one scheduler on its own
\* A single LoopingThread of any interval with a callback that returns at
\* once, started, and stopped at any moment, before its start and after an
\* earlier stop included, by another thread.
TimerInit ==
    /\ now = 0
    /\ \E w \in 1..MaxWait : lt = [timer |-> LoopingThread("noop", w)]
    /\ hist = [timer |-> NoHist]
    /\ streams = [n \in StreamNames |-> <<>>]
    /\ acq = [pc |-> "new", stop |-> FALSE]
    /\ series = [n \in RiskNames |-> <<>>]
    /\ mp = NoPrediction
    /\ sv = [c \in {"main", "timer"} |-> NoSave]
    /\ file = [exists |-> FALSE, table |-> NoTable]
    /\ main = [pc |-> "input", err |-> "none"]
    /\ obs = NoObs

TimerStop ==
    /\ stop("timer")
    /\ obs' = IF Alive("timer") /\ hist["timer"].stop_at = -1
              THEN [obs EXCEPT !.stop_pc = lt["timer"].pc,
                               !.stop_i = lt["timer"].i,
                               !.calls_at_stop = hist["timer"].calls]
              ELSE obs
    /\ UNCHANGED <<now, streams, acq, series, mp, sv, file, main>>

TimerNext ==
    \/ Start("timer") /\ UNCHANGED <<now, sysVars>>
    \/ TimerStop
    \/ RunWhile("timer")
    \/ RunCheck("timer")
    \/ RunWake("timer")
    \/ RunCall("timer")
    \/ RunReturn("timer")
    \/ Tick(MaxTimerTime, 1)

TimerSpec == TimerInit /\ [][TimerNext]_vars

\* ---------------------------------------------------------- make_prediction
\* except: logger.error("Not enough data ..."); fall through to the appends
SkippedCycle_falls_through(m) == [m EXCEPT !.pc = AppendOrder[1]]

\* except: logger.error("Not enough data ..."); return
SkippedCycle(m) == [m EXCEPT !.pc = "done"]

\* try: user_attributes = self.get_current_attributes()
\* except: logger.error(...); return
\* tup = self.predictor.make_prediction(...); now = time.time()
\* (no reading arrives within the instant, so the three statements see the
\* same streams and are one step)
MpPredict ==
    /\ mp.pc = "attrs"
    /\ IF InsufficientData(streams)
       THEN /\ mp' = SkippedCycle(mp)
            /\ obs' = [obs EXCEPT !.mp_skipped = @ + 1]
       ELSE LET attrs == get_current_attributes(streams)
            IN  /\ mp' = [mp EXCEPT
                            !.attrs = attrs,
                            !.tup = predictor_make_prediction(
                                        attrs, streams["HR_stream"],
                                        streams["STemp_stream"]),
                            !.now = now,
                            !.pc = AppendOrder[1]]
                /\ obs' = [obs EXCEPT !.mp_ok = @ + 1,
                                      !.predictor_calls = @ + 1]
    /\ UNCHANGED <<now, lt, hist, streams, acq, series, sv, file, main>>

\* CT_prob, HI_prob, LR_prob, risk = tup
TupValue(tup, name) ==
    CASE name = "CT Risk" -> tup[1]
      [] name = "HI Risk" -> tup[2]
      [] name = "LR Risk" -> tup[3]
      [] OTHER -> tup[4]

\* The frame of make_prediction after its set_value on the series named by
\* its pc
AfterSetValue(m) ==
    LET k == CHOOSE j \in 1..Len(AppendOrder) : AppendOrder[j] = m.pc
    IN  [m EXCEPT !.pc = IF k < Len(AppendOrder) THEN AppendOrder[k + 1] ELSE "done"]

SetValueNow(ser, m) ==
    [ser EXCEPT ![m.pc] = set_value(@, m.now, TupValue(m.tup, m.pc))]

\* self.<name>_series.set_value(now, <value>): the four appends, one at a time
MpSetValue ==
    /\ mp.pc \in RiskNames
    /\ series' = SetValueNow(series, mp)
    /\ mp' = AfterSetValue(mp)
    /\ UNCHANGED <<now, lt, hist, streams, acq, sv, file, main, obs>>

\* ------------------------------------------------------------ save_all_data
\* longest_risk_series = max(...); num_to_append = longest - df.shape[0]
num_to_append(df, core) ==
    Max({size(series[n]) : n \in RiskNames} \cup {size(core)}) - df.rows

\* df = self.monitor.get_compiled_df()
\* core_temperature_series = self.predictor.estimate_core_temperature(HR_stream, 37.6)
\* if num_to_append > 0: filler = np.empty()   -- raises TypeError: np.empty
\* needs a shape; the two lines after it are never reached
SaveBegin(c) ==
    /\ sv[c].pc = "begin"
    /\ LET df == get_compiled_df(streams)
           core == estimate_core_temperature(streams["HR_stream"], BaselineCT)
       IN  sv' = [sv EXCEPT ![c] =
                    IF num_to_append(df, core) > 0
                    THEN [NoSave EXCEPT !.pc = "raised"]
                    ELSE [pc |-> "lines", line |-> 1, df |-> df, core |-> core]]
    /\ UNCHANGED <<now, lt, hist, streams, acq, series, mp, file, main, obs>>

\* One assignment  df.loc[range(self.X_series.size), column] = self.X_series.keys()
\* (or .values) evaluates its right-hand side, then the size, then assigns.
Read(src, what) == IF what = "keys" THEN keys(src) ELSE values(src)

\* The frame after line k of the assignments, data being its right-hand side
\* and n the size read for the range
LineDone(f, k, n, data) ==
    IF SetColumnRaises(f.df, n, data)
    THEN [NoSave EXCEPT !.pc = "raised"]
    ELSE [f EXCEPT !.df = SetColumn(f.df, n, SaveLines[k][2], data),
                   !.line = k + 1]

\* The frame after the two assignments of one series, lines k and k + 1:
\* rhs1, size1 are what the first reads of the series, rhs2, size2 the second
TwoLinesDone(f, k, rhs1, size1, rhs2, size2) ==
    LET f1 == LineDone(f, k, size(size1), Read(rhs1, SaveLines[k][3]))
    IN  IF f1.pc = "raised" THEN f1
        ELSE LineDone(f1, k + 1, size(size2), Read(rhs2, SaveLines[k + 1][3]))

\* The lines from k on that read only the frame's own core_temperature_series
RECURSIVE LocalLines(_, _)
LocalLines(f, k) ==
    IF f.pc = "raised" \/ k > Len(SaveLines) THEN f
    ELSE LocalLines(LineDone(f, k, size(f.core), Read(f.core, SaveLines[k][3])), k + 1)

\* the lines of the four RiskSeries come first, two for each
SharedLines == 2 * Len(AppendOrder)

\* The two assignments from one RiskSeries, "time X" then "X", with no
\* set_value on that series in between their four reads.  (A set_value on
\* another series in between changes nothing they read.)
SaveSeries(c) ==
    /\ sv[c].pc = "lines"
    /\ sv[c].line <= SharedLines
    /\ LET src == series[SaveLines[sv[c].line][1]]
       IN  sv' = [sv EXCEPT ![c] = TwoLinesDone(@, sv[c].line, src, src, src, src)]
    /\ UNCHANGED <<now, lt, hist, streams, acq, series, mp, file, main, obs>>

\* The same two assignments when make_prediction's set_value on that series
\* lands in between their reads: inside the first assignment (after its
\* right-hand side, before its size), between the two assignments, or inside
\* the second.  The step is the earlier reads, the set_value, the later reads.
SaveSeriesTorn(c) ==
    /\ sv[c].pc = "lines"
    /\ sv[c].line <= SharedLines
    /\ mp.pc = SaveLines[sv[c].line][1]
    /\ LET before == series[mp.pc]
           after == SetValueNow(series, mp)[mp.pc]
       IN  \E lands \in {"in first", "between", "in second"} :
             sv' = [sv EXCEPT ![c] =
                      CASE lands = "in first" ->
                               TwoLinesDone(@, sv[c].line, before, after, after, after)
                        [] lands = "between" ->
                               TwoLinesDone(@, sv[c].line, before, before, after, after)
                        [] OTHER ->
                               TwoLinesDone(@, sv[c].line, before, before, before, after)]
    /\ series' = SetValueNow(series, mp)
    /\ mp' = AfterSetValue(mp)
    /\ UNCHANGED <<now, lt, hist, streams, acq, file, main, obs>>

\* save_all_data emptying the RiskSeries once they are written
SaveToCsv_clears(c) ==
    /\ sv[c].pc = "lines"
    /\ sv[c].line > SharedLines
    /\ LET f == LocalLines(sv[c], sv[c].line)
       IN  IF f.pc = "raised"
           THEN /\ sv' = [sv EXCEPT ![c] = f]
                /\ file' = file
                /\ series' = series
           ELSE /\ sv' = [sv EXCEPT ![c] = [f EXCEPT !.pc = "done"]]
                /\ file' = [exists |-> TRUE, table |-> f.df]
                /\ series' = [n \in RiskNames |-> <<>>]
    /\ UNCHANGED <<now, lt, hist, streams, acq, mp, main, obs>>

\* df.to_csv(path, mode='a'): the table is added to what the file holds
SaveToCsv_appends(c) ==
    /\ sv[c].pc = "lines"
    /\ sv[c].line > SharedLines
    /\ LET f == LocalLines(sv[c], sv[c].line)
       IN  IF f.pc = "raised"
           THEN /\ sv' = [sv EXCEPT ![c] = f]
                /\ file' = file
           ELSE /\ sv' = [sv EXCEPT ![c] = [f EXCEPT !.pc = "done"]]
                /\ file' = [exists |-> TRUE,
                            table |-> [rows |-> file.table.rows + f.df.rows,
                                       cols |-> [col \in Columns |->
                                                   file.table.cols[col] \o f.df.cols[col]]]]
    /\ UNCHANGED <<now, lt, hist, streams, acq, series, mp, main, obs>>

\* The two assignments from core_temperature_series, which no other thread
\* can reach, then df.to_csv(self.data_save_file): the file is replaced by
\* the table
SaveToCsv(c) ==
    /\ sv[c].pc = "lines"
    /\ sv[c].line > SharedLines
    /\ LET f == LocalLines(sv[c], sv[c].line)
       IN  IF f.pc = "raised"
           THEN /\ sv' = [sv EXCEPT ![c] = f]
                /\ file' = file
           ELSE /\ sv' = [sv EXCEPT ![c] = [f EXCEPT !.pc = "done"]]
                /\ file' = [exists |-> TRUE, table |-> f.df]
    /\ UNCHANGED <<now, lt, hist, streams, acq, series, mp, main, obs>>

\* -------------------------------------------------------------- acquisition
Readings == LET RECURSIVE Sum(_)
                Sum(k) == IF k = 0 THEN 0
                          ELSE Len(streams[StreamOrder[k]]) + Sum(k - 1)
            IN  Sum(Len(StreamOrder))

\* The value the sensor of stream n reads: a steady signal, one value per
\* quantity
SampleValue(n) == 10 * (CHOOSE k \in 1..Len(StreamOrder) : StreamOrder[k] = n)

\* The monitor's thread parses one reading and appends it to its stream; the
\* quantities arrive one after the other in a fixed order.  Readings arrive
\* as time passes: while the other threads sleep or block, not within the
\* instant in which a callback or the main thread executes.
AcquireSample ==
    /\ acq.pc = "reading"
    /\ Readings < MaxReadings
    /\ \A th \in Threads : ~Computing(th)
    /\ MainBlocked
    /\ LET n == StreamOrder[(Readings % Len(StreamOrder)) + 1]
       IN  streams' = [streams EXCEPT ![n] =
                          Append(@, [t |-> Readings + 1, v |-> SampleValue(n)])]
    /\ UNCHANGED <<now, lt, hist, acq, series, mp, sv, file, main, obs>>

\* The monitor's thread sees the stop signal and ends
AcquireExit ==
    /\ acq.pc = "reading"
    /\ acq.stop
    /\ acq' = [acq EXCEPT !.pc = "dead"]
    /\ UNCHANGED <<now, lt, hist, streams, series, mp, sv, file, main, obs>>

\* ------------------------------------------------- test() and stop_all_threads
\* threading.activeCount(): the main thread and every started, unfinished thread
activeCount ==
    1 + Cardinality({th \in Threads : Alive(th)})
      + (IF acq.pc = "reading" THEN 1 ELSE 0)

\* handler.start_data_collection(): monitor.read_data_from_port()
start_data_collection ==
    /\ main.pc = "start_data_collection"
    /\ acq' = [acq EXCEPT !.pc = "reading"]
    /\ main' = [main EXCEPT !.pc = "saving_thread.start"]
    /\ UNCHANGED <<now, lt, hist, streams, series, mp, sv, file, obs>>

\* handler.saving_thread.start()
StartSaving ==
    /\ main.pc = "saving_thread.start"
    /\ Start("saving_thread")
    /\ main' = [main EXCEPT !.pc = "start_prediction_thread"]
    /\ UNCHANGED <<now, streams, acq, series, mp, sv, file, obs>>

\* handler.start_prediction_thread()
start_prediction_thread ==
    /\ main.pc = "start_prediction_thread"
    /\ Start("prediciton_thread")
    /\ main' = [main EXCEPT !.pc = "input"]
    /\ UNCHANGED <<now, streams, acq, series, mp, sv, file, obs>>

\* The pause of test() ends (a line of input, or KeyboardInterrupt, which
\* the except clause around the pause catches): handler.save_all_data() begins
MainInput ==
    /\ main.pc = "input"
    /\ main' = [main EXCEPT !.pc = "save_all_data"]
    /\ sv' = [sv EXCEPT !["main"].pc = "begin"]
    /\ UNCHANGED <<now, lt, hist, streams, acq, series, mp, file, obs>>

\* handler.save_all_data() returned: handler.stop_all_threads(wait=True) begins
MainSaved ==
    /\ main.pc = "save_all_data"
    /\ sv["main"].pc = "done"
    /\ main' = [main EXCEPT !.pc = "stop_prediction_thread"]
    /\ sv' = [sv EXCEPT !["main"] = NoSave]
    /\ UNCHANGED <<now, lt, hist, streams, acq, series, mp, file, obs>>

\* handler.save_all_data() raised: nothing in test() catches it
MainSaveRaised ==
    /\ main.pc = "save_all_data"
    /\ sv["main"].pc = "raised"
    /\ main' = [main EXCEPT !.pc = "raised", !.err = "save_all_data"]
    /\ sv' = [sv EXCEPT !["main"] = NoSave]
    /\ UNCHANGED <<now, lt, hist, streams, acq, series, mp, file, obs>>

\* a stop that ends the prediction thread by force
stop_prediction_thread_kills ==
    /\ main.pc = "stop_prediction_thread"
    /\ lt' = [lt EXCEPT !["prediciton_thread"].is_running = FALSE,
                        !["prediciton_thread"].pc = "dead"]
    /\ hist' = hist
    /\ main' = [main EXCEPT !.pc = "stop_data_read"]
    /\ UNCHANGED <<now, streams, acq, series, mp, sv, file, obs>>

\* self.stop_prediction_thread()
stop_prediction_thread ==
    /\ main.pc = "stop_prediction_thread"
    /\ stop("prediciton_thread")
    /\ main' = [main EXCEPT !.pc = "stop_data_read"]
    /\ UNCHANGED <<now, streams, acq, series, mp, sv, file, obs>>

\* self.monitor.stop_data_read()
stop_data_read ==
    /\ main.pc = "stop_data_read"
    /\ acq' = [acq EXCEPT !.stop = TRUE]
    /\ main' = [main EXCEPT !.pc = "saving_thread.stop"]
    /\ UNCHANGED <<now, lt, hist, streams, series, mp, sv, file, obs>>

\* self.saving_thread.stop(); wait is True, so the wait loop is entered
StopSaving ==
    /\ main.pc = "saving_thread.stop"
    /\ stop("saving_thread")
    /\ main' = [main EXCEPT !.pc = "wait"]
    /\ UNCHANGED <<now, streams, acq, series, mp, sv, file, obs>>

\* try: while threading.activeCount() > 1: time.sleep(0.1)
\*      break                      -- and stop_all_threads returns
WaitPoll ==
    /\ main.pc = "wait"
    /\ main' = [main EXCEPT !.pc = IF activeCount > 1 THEN "wait" ELSE "returned"]
    /\ UNCHANGED <<now, lt, hist, streams, acq, series, mp, sv, file, obs>>

\* A KeyboardInterrupt is delivered to the main thread while it is in the
\* wait loop.  Inside the try block it is caught by `except KeyboardInterrupt`;
\* while the except clause itself executes no handler is in force and the
\* exception leaves stop_all_threads.
KeyboardInterrupt ==
    /\ main.pc \in {"wait", "except"}
    /\ main' = [main EXCEPT
                  !.pc = IF main.pc = "wait" THEN "except" ELSE "raised",
                  !.err = IF main.pc = "wait" THEN @ ELSE "KeyboardInterrupt"]
    /\ UNCHANGED <<now, lt, hist, streams, acq, series, mp, sv, file, obs>>

\* except KeyboardInterrupt: continue
WaitContinue ==
    /\ main.pc = "except"
    /\ main' = [main EXCEPT !.pc = "wait"]
    /\ UNCHANGED <<now, lt, hist, streams, acq, series, mp, sv, file, obs>>

\* -------------------------------------------------------------- the handler
\* self.prediciton_thread = LoopingThread(self.make_prediction, 5)
PredictionInterval == 5 * TicksPerSecond
\* self.saving_thread = LoopingThread(self.save_all_data, 30)
SavingInterval == 30 * TicksPerSecond

\* PredictionHandler.__init__ and initialize_threads, then test() about to
\* start the threads
Init ==
    /\ now = 0
    /\ lt = [prediciton_thread |-> LoopingThread("make_prediction", PredictionInterval),
             saving_thread |-> LoopingThread("save_all_data", SavingInterval)]
    /\ hist = [th \in {"prediciton_thread", "saving_thread"} |-> NoHist]
    /\ streams = [n \in StreamNames |-> <<>>]
    /\ acq = [pc |-> "new", stop |-> FALSE]
    /\ series = [n \in RiskNames |-> <<>>]
    /\ mp = NoPrediction
    /\ sv = [c \in {"main", "saving_thread"} |-> NoSave]
    /\ file = [exists |-> FALSE, table |-> NoTable]
    /\ main = [pc |-> "start_data_collection", err |-> "none"]
    /\ obs = NoObs

ThreadNext(th) ==
    \/ RunWhile(th)
    \/ RunCheck(th)
    \/ RunWake(th)
    \/ RunCall(th)
    \/ RunReturn(th)
    \/ RunRaise(th)

PredictionNext == MpPredict \/ MpSetValue

SaveNext(c) == SaveBegin(c) \/ SaveSeries(c) \/ SaveSeriesTorn(c) \/ SaveToCsv(c)

MainNext ==
    \/ start_data_collection
    \/ StartSaving
    \/ start_prediction_thread
    \/ MainInput
    \/ MainSaved
    \/ MainSaveRaised
    \/ stop_prediction_thread
    \/ stop_data_read
    \/ StopSaving
    \/ WaitPoll

NextNoInterrupt ==
    \/ MainNext
    \/ AcquireSample
    \/ AcquireExit
    \/ ThreadNext("prediciton_thread")
    \/ ThreadNext("saving_thread")
    \/ PredictionNext
    \/ SaveNext("main")
    \/ SaveNext("saving_thread")
    \/ \E d \in TimeToWake : Tick(MaxTime, d)

\* a KeyboardInterrupt and the except clause that handles it
InterruptNext == KeyboardInterrupt \/ WaitContinue

Next == NextNoInterrupt \/ InterruptNext

Spec == Init /\ [][Next]_vars

\* Spec without KeyboardInterrupts, in which the process does not halt:
\* as long as some thread can take a step or the clock can advance, one does
FairSpec == Init /\ [][NextNoInterrupt]_vars /\ WF_vars(NextNoInterrupt)

\* --------------------------------------------- save_all_data on its own
\* save_all_data called by the main thread with no other thread running, on
\* the states a run can have built: streams of any lengths, and RiskSeries of
\* completed prediction cycles (none unless every stream has a sample).
Probabilities == {12, 55, 91}

\* The k-th stream sample and the RiskSeries of n cycles with aggregate
\* risks r; the sub-scores are the risk shifted by one, two and three.
SamplesOf(name, n) == [k \in 1..n |-> [t |-> k, v |-> SampleValue(name)]]
ShiftOf(name) == CHOOSE k \in 1..Len(AppendOrder) : AppendOrder[k] = name
SeriesOf(name, r) ==
    [k \in 1..Len(r) |-> [t |-> (k - 1) * PredictionInterval,
                          v |-> r[k] + ShiftOf(name) - 1]]

RiskRuns == UNION {[1..n -> Probabilities] : n \in 0..MaxCycles}

MergeInit ==
    /\ now = MaxCycles * PredictionInterval + 1
    /\ lt = <<>>
    /\ hist = <<>>
    /\ acq = [pc |-> "dead", stop |-> TRUE]
    /\ \E h \in 0..MaxRows, o \in 0..MaxRows, r \in RiskRuns :
          /\ (Len(r) > 0) => (h > 0 /\ o > 0)
          /\ streams = [n \in StreamNames |->
                           SamplesOf(n, IF n = "HR_stream" THEN h ELSE o)]
          /\ series = [n \in RiskNames |-> SeriesOf(n, r)]
    /\ mp = NoPrediction
    /\ sv = [c \in {"main"} |-> NoSave]
    /\ file = [exists |-> FALSE, table |-> NoTable]
    /\ main = [pc |-> "input", err |-> "none"]
    /\ obs = NoObs

MergeNext ==
    \/ MainInput
    \/ SaveBegin("main")
    \/ SaveSeries("main")
    \/ SaveToCsv("main")
    \/ MainSaved
    \/ MainSaveRaised

MergeSpec == MergeInit /\ [][MergeNext]_vars

\* ------------------------------------------- save_all_data called twice
\* Two calls of save_all_data, the tick of the saving thread and the call of
\* test(), with no prediction cycle and no reading between or during them, on
\* the states of MergeSpec.
ResaveInit ==
    /\ now = MaxCycles * PredictionInterval + 1
    /\ lt = <<>>
    /\ hist = <<>>
    /\ acq = [pc |-> "dead", stop |-> TRUE]
    /\ \E h \in 0..MaxRows, o \in 0..MaxRows, r \in RiskRuns :
          /\ (Len(r) > 0) => (h > 0 /\ o > 0)
          /\ streams = [n \in StreamNames |->
                           SamplesOf(n, IF n = "HR_stream" THEN h ELSE o)]
          /\ series = [n \in RiskNames |-> SeriesOf(n, r)]
    /\ mp = NoPrediction
    /\ sv = [c \in {"main", "saving_thread"} |->
                IF c = "main" THEN NoSave ELSE [NoSave EXCEPT !.pc = "begin"]]
    /\ file = [exists |-> FALSE, table |-> NoTable]
    /\ main = [pc |-> "input", err |-> "none"]
    /\ obs = NoObs

ResaveNext ==
    \/ SaveBegin("saving_thread")
    \/ SaveSeries("saving_thread")
    \/ SaveToCsv("saving_thread")
    \/ MainInput
    \/ SaveBegin("main")
    \/ SaveSeries("main")
    \/ SaveToCsv("main")
    \/ MainSaved
    \/ MainSaveRaised

ResaveSpec == ResaveInit /\ [][ResaveNext]_vars

\* ------------------------------------------- the saving thread on its own
\* The saving thread with any interval, started and left to run while the
\* main thread is blocked in input(), on streams and RiskSeries that stay as
\* they are: each tick of it returns, or each raises.
PersistInit ==
    /\ now = 0
    /\ \E w \in 1..MaxWait : lt = [saving_thread |-> LoopingThread("save_all_data", w)]
    /\ hist = [saving_thread |-> NoHist]
    /\ acq = [pc |-> "dead", stop |-> TRUE]
    /\ \E h \in 0..MaxRows, o \in 0..MaxRows, n \in 0..MaxCycles :
          /\ (n > 0) => (h > 0 /\ o > 0)
          /\ streams = [name \in StreamNames |->
                           SamplesOf(name, IF name = "HR_stream" THEN h ELSE o)]
          /\ series = [name \in RiskNames |->
                          SeriesOf(name, [k \in 1..n |-> Min(Probabilities)])]
    /\ mp = NoPrediction
    /\ sv = [c \in {"main", "saving_thread"} |-> NoSave]
    /\ file = [exists |-> FALSE, table |-> NoTable]
    /\ main = [pc |-> "input", err |-> "none"]
    /\ obs = NoObs

\* Time passes while the main thread is blocked in input() and no
\* LoopingThread is asleep or executing
InputBlocks ==
    /\ main.pc = "input"
    /\ \A th \in Threads : ~Sleeping(th) /\ ~Computing(th)
    /\ now < MaxTimerTime
    /\ now' = now + 1
    /\ UNCHANGED <<lt, hist, sysVars>>

PersistNext ==
    \/ Start("saving_thread") /\ UNCHANGED <<now, sysVars>>
    \/ RunWhile("saving_thread")
    \/ RunCheck("saving_thread")
    \/ RunWake("saving_thread")
    \/ RunCall("saving_thread")
    \/ RunReturn("saving_thread")
    \/ RunRaise("saving_thread")
    \/ SaveBegin("saving_thread")
    \/ SaveSeries("saving_thread")
    \/ SaveToCsv("saving_thread")
    \/ Tick(MaxTimerTime, 1)
    \/ InputBlocks

PersistSpec == PersistInit /\ [][PersistNext]_vars

\* ------------------------------------- get_current_attributes on its own
\* make_prediction called by the prediction thread on streams of any
\* lengths, the samples of one stream all different.
ReadingsOf(name, n) == [k \in 1..n |-> [t |-> k, v |-> SampleValue(name) + k]]

SnapshotInit ==
    /\ now = 1
    /\ lt = <<>>
    /\ hist = <<>>
    /\ acq = [pc |-> "reading", stop |-> FALSE]
    /\ \E len \in [StreamNames -> 0..MaxSamples] :
          streams = [n \in StreamNames |-> ReadingsOf(n, len[n])]
    /\ series = [n \in RiskNames |-> <<>>]
    /\ mp = [NoPrediction EXCEPT !.pc = "attrs"]
    /\ sv = [c \in {"main"} |-> NoSave]
    /\ file = [exists |-> FALSE, table |-> NoTable]
    /\ main = [pc |-> "input", err |-> "none"]
    /\ obs = NoObs

SnapshotNext == MpPredict \/ MpSetValue

SnapshotSpec == SnapshotInit /\ [][SnapshotNext]_vars

\* ------------------------------------------------------- scheduler claims
\* C2: once stop() has been called on a running LoopingThread, the thread
\* completes at most one more wait slice, a slice is at most one second, and
\* no callback invocation begins later than one second after the stop.
C2_StopObservedWithinOneSlice ==
    \A th \in Threads :
        /\ lt[th].loop_wait <= TicksPerSecond
        /\ hist[th].slices_after_stop <= 1
        /\ ~hist[th].late

\* a thread with a long interval that was stopped while running, finished one
\* more slice after the stop and has exited
C2_Witness ==
    /\ lt["timer"].wait_time > 2 * TicksPerSecond
    /\ hist["timer"].stop_at > 0
    /\ hist["timer"].slices_after_stop = 1
    /\ lt["timer"].pc = "dead"

\* C3: for every interval t > 0 the wait slices executed before a callback
\* sum to exactly t, and over a run of duration D a never-stopped thread has
\* invoked its callback floor(D/t) times, give or take one.
C3_CallbackEveryInterval ==
    \A th \in Threads :
        /\ lt[th].pc = "called" => hist[th].slept = lt[th].wait_time
        /\ (Alive(th) /\ lt[th].is_running) =>
              LET expected == (now - hist[th].started_at) \div lt[th].wait_time
              IN  /\ hist[th].calls <= expected + 1
                  /\ hist[th].calls >= expected - 1

\* C12: a stop() that arrives while the callback executes does not preempt
\* it: the callback runs to its return, after which no further callback is
\* started and the thread can only exit.
C12_StopDuringCallback ==
    [][obs'.stop_pc = "called" =>
          /\ hist'["timer"].calls = obs'.calls_at_stop
          /\ lt'["timer"].pc \in {"called", "while", "dead"}
          /\ (lt["timer"].pc = "called" /\ lt'["timer"].pc # "called") =>
                lt'["timer"].pc = "while"
          /\ (lt["timer"].pc = "while" /\ lt'["timer"].pc # "while") =>
                lt'["timer"].pc = "dead"
      ]_vars

\* a thread of a long interval was stopped inside its second callback and
\* has exited
C12_Witness ==
    /\ obs.stop_pc = "called"
    /\ lt["timer"].wait_time > TicksPerSecond
    /\ hist["timer"].calls = 2
    /\ lt["timer"].pc = "dead"

\* the first stop() found the thread in the last wait slice of an interval,
\* or past it and about to enter the callback
StoppedInFinalSlice ==
    \/ obs.stop_pc = "call"
    \/ obs.stop_pc = "sleep" /\ obs.stop_i = lt["timer"].num_loops - 1

\* C17: after stop() on a running LoopingThread at most one more callback
\* invocation begins: none when the stop is seen by a check between slices
\* (or by the loop test), and exactly one before the thread exits when the
\* stop arrives during the last wait slice of an interval, which no check
\* follows.
C17_AtMostOneMoreCallback ==
    hist["timer"].stop_at # -1 =>
        LET more == hist["timer"].calls - obs.calls_at_stop
        IN  /\ more \in {0, 1}
            /\ ~StoppedInFinalSlice => more = 0
            /\ (StoppedInFinalSlice /\ lt["timer"].pc = "dead") => more = 1

\* a thread of three slices to the interval, stopped in the third slice, ran
\* its callback once more and exited
C17_Witness ==
    /\ lt["timer"].num_loops = 3
    /\ obs.stop_pc = "sleep" /\ obs.stop_i = 2
    /\ hist["timer"].calls = obs.calls_at_stop + 1
    /\ lt["timer"].pc = "dead"

\* C13: stop() on a LoopingThread that has not been started, or that has
\* been stopped already, raises nothing and leaves the state of the
\* LoopingThread as it was.
C13_StopIsNoOp ==
    [][(TimerStop /\ (lt["timer"].pc = "new" \/ ~lt["timer"].is_running)) =>
          lt' = lt
      ]_vars

\* ------------------------------------------------------------ cycle claims
Filled(col) == Cardinality({k \in 1..Len(col) : col[k] # Empty})
StrictlyIncreasing(s) == \A k \in 1..(Len(s) - 1) : s[k].t < s[k + 1].t
SomeStreamEmpty == \E n \in StreamNames : streams[n] = <<>>

\* C1: whatever the interleaving of make_prediction with a save_all_data on
\* another thread, the table a save_all_data writes holds no torn series:
\* for each RiskSeries the time column and the value column have the same
\* number of filled rows, and each written timestamp is paired with the value
\* appended together with it.
C1_NoTornSeries ==
    file.exists =>
        \A n \in RiskNames :
            LET tcol == file.table.cols["time " \o n]
                vcol == file.table.cols[n]
            IN  /\ Filled(tcol) = Filled(vcol)
                /\ \A k \in 1..Len(tcol) :
                      tcol[k] # Empty =>
                          /\ k <= Len(series[n])
                          /\ series[n][k] = [t |-> tcol[k], v |-> vcol[k]]

\* C4: stop_all_threads(wait=True) returns only when no thread but the
\* caller's is alive, and every KeyboardInterrupt arriving during the wait
\* loop is swallowed, never leaving stop_all_threads.
C4_WaitSwallowsInterrupts ==
    /\ main.pc = "returned" => activeCount <= 1
    /\ main.err # "KeyboardInterrupt"

\* C5: once stop_all_threads(wait=True) is called with both LoopingThreads
\* and the acquisition running, both LoopingThreads eventually terminate and
\* stop_all_threads eventually returns with only the caller's thread left.
C5_ShutdownCompletes ==
    (/\ main.pc = "stop_prediction_thread"
     /\ \A th \in Threads : Alive(th)
     /\ acq.pc = "reading")
    ~> (/\ main.pc = "returned"
        /\ \A th \in Threads : lt[th].pc = "dead"
        /\ activeCount = 1)

\* stop_all_threads has returned after stopping two live LoopingThreads, one
\* of them inside a wait slice it then finished
C5_Witness ==
    /\ main.pc = "returned"
    /\ \A th \in Threads : hist[th].stop_at >= 0 /\ lt[th].pc = "dead"
    /\ \E th \in Threads : hist[th].slices_after_stop = 1
    /\ acq.pc = "dead"

\* C9: the timestamps of each RiskSeries increase strictly, and whenever no
\* prediction cycle is executing the length of each RiskSeries is the number
\* of make_prediction invocations that did not hit InsufficientData.
C9_SeriesFollowCycles ==
    \A n \in RiskNames :
        /\ StrictlyIncreasing(series[n])
        /\ mp.pc = "idle" => Len(series[n]) = obs.mp_ok

\* two cycles have appended after an earlier one was skipped
C9_Witness ==
    /\ mp.pc = "idle"
    /\ obs.mp_skipped >= 1
    /\ obs.mp_ok >= 2
    /\ \A n \in RiskNames : Len(series[n]) = 2

\* C10: a make_prediction that finds a stream empty is skipped with no
\* effect: the predictor is not called, no RiskSeries changes, the callback
\* returns, and the LoopingThread goes on with its loop.
C10_SkippedCycleHasNoEffect ==
    [][/\ (mp.pc = "attrs" /\ SomeStreamEmpty /\ mp'.pc # "attrs") =>
            /\ mp'.pc = "done"
            /\ series' = series
            /\ obs'.predictor_calls = obs.predictor_calls
            /\ lt' = lt
       /\ (/\ lt["prediciton_thread"].pc = "called"
           /\ mp.pc = "done"
           /\ lt'["prediciton_thread"].pc # "called") =>
            /\ lt'["prediciton_thread"].pc = "while"
            /\ series' = series
      ]_vars

\* a cycle was skipped while only some of the streams had a sample, and a
\* later tick of the same thread made a prediction
C10_Witness ==
    /\ obs.mp_skipped >= 1
    /\ obs.mp_ok >= 1
    /\ hist["prediciton_thread"].calls = obs.mp_skipped + obs.mp_ok
    /\ Len(series["LR Risk"]) >= 1

\* C18: the lengths of the four RiskSeries satisfy
\* len(risk) >= len(CT) >= len(HI) >= len(LR) >= len(risk) - 1, and whenever
\* no prediction cycle is executing the four have the same length and the
\* same timestamps.
C18_SeriesLengthsInStep ==
    /\ Len(series["Risk"]) >= Len(series["CT Risk"])
    /\ Len(series["CT Risk"]) >= Len(series["HI Risk"])
    /\ Len(series["HI Risk"]) >= Len(series["LR Risk"])
    /\ Len(series["LR Risk"]) >= Len(series["Risk"]) - 1
    /\ mp.pc \in {"idle", "done"} =>
          \A n \in RiskNames : keys(series[n]) = keys(series["Risk"])

\* the second cycle has appended to the aggregate and the CT series and not
\* yet to the other two
C18_Witness ==
    /\ mp.pc = "HI Risk"
    /\ Len(series["Risk"]) = 2 /\ Len(series["CT Risk"]) = 2
    /\ Len(series["HI Risk"]) = 1 /\ Len(series["LR Risk"]) = 1

\* C11: get_current_attributes fails, with InsufficientData, exactly when at
\* least one of the seven streams is empty; otherwise the snapshot holds for
\* each stream field the latest element of its stream, the profile fields as
\* the profile gives them, and 0 for 'Exposure to sun'.
C11_SnapshotOrInsufficientData ==
    mp.pc # "attrs" =>
        IF \E n \in StreamNames : Len(streams[n]) = 0
        THEN /\ obs.mp_skipped = 1 /\ obs.mp_ok = 0
             /\ mp.attrs = <<>>
        ELSE /\ obs.mp_skipped = 0 /\ obs.mp_ok = 1
             /\ DOMAIN mp.attrs =
                    user_fields \cup DOMAIN stream_dict \cup {"Exposure to sun"}
             /\ \A f \in DOMAIN stream_dict :
                    LET stream == streams[stream_dict[f]]
                    IN  mp.attrs[f] = stream[Len(stream)].v
             /\ \A f \in user_fields : mp.attrs[f] = get_user_attributes[f]
             /\ mp.attrs["Exposure to sun"] = 0

\* a snapshot was taken of streams holding two samples each and holds the
\* later skin temperature
C11_Witness ==
    /\ mp.pc # "attrs"
    /\ \A n \in StreamNames : Len(streams[n]) = 2
    /\ obs.mp_ok = 1
    /\ mp.attrs["Skin Temperature"] = streams["STemp_stream"][2].v
    /\ streams["STemp_stream"][2].v # streams["STemp_stream"][1].v

\* ------------------------------------------------------------ merger claims
SaveFinished == main.pc \in {"stop_prediction_thread", "raised"}
CoreTemperature == estimate_core_temperature(streams["HR_stream"], BaselineCT)
Merged(n) == IF n = "est CT" THEN CoreTemperature ELSE series[n]
SeriesNames == {SeriesColumns[k] : k \in 1..Len(SeriesColumns)}
LongestLength == Max({MaxLen(streams)} \cup {Len(Merged(n)) : n \in SeriesNames})

\* C6: when the length of some series differs from the row count of the raw
\* table, in particular when it is longer, save_all_data completes without
\* an error, pads the table with empty rows and writes every entry of every
\* series.
C6_LengthMismatchIsPadded ==
    (SaveFinished /\ \E n \in SeriesNames : Len(Merged(n)) # MaxLen(streams)) =>
        /\ main.err = "none"
        /\ file.exists
        /\ file.table.rows >= LongestLength
        /\ \A n \in SeriesNames : Filled(file.table.cols[n]) = Len(Merged(n))

\* C7: the table written has as many rows as the longest of the raw table,
\* the four RiskSeries and the core-temperature series, and the cells of a
\* shorter series at and beyond its length are empty.
C7_RowCountIsLongest ==
    SaveFinished =>
        /\ file.exists
        /\ file.table.rows = LongestLength
        /\ \A n \in SeriesNames : \A c \in {n, "time " \o n} :
              /\ Len(file.table.cols[c]) = file.table.rows
              /\ \A k \in (Len(Merged(n)) + 1)..file.table.rows :
                    file.table.cols[c][k] = Empty

\* C8: after save_all_data the column "time <Series>" holds the series'
\* timestamps and the column "<Series>" its values, in append order, at row
\* offsets 0..len-1, for each of the five series.
C8_ColumnsHoldSeries ==
    SaveFinished =>
        /\ file.exists
        /\ \A n \in SeriesNames :
              /\ Len(file.table.cols[n]) >= Len(Merged(n))
              /\ SubSeq(file.table.cols["time " \o n], 1, Len(Merged(n))) = keys(Merged(n))
              /\ SubSeq(file.table.cols[n], 1, Len(Merged(n))) = values(Merged(n))

C15_SaveLeavesSeriesAlone ==
    [][/\ (sv' # sv /\ mp' = mp) => (series' = series /\ streams' = streams)
       /\ (series' # series) =>
             /\ mp.pc \in RiskNames
             /\ mp' = AfterSetValue(mp)
             /\ series' = SetValueNow(series, mp)
             /\ streams' = streams
       /\ (streams' # streams) => (sv' = sv /\ series' = series)
      ]_vars

\* a save_all_data has written a prediction cycle, and the cycle is still in
\* the RiskSeries
C15_Witness ==
    /\ file.exists
    /\ Filled(file.table.cols["LR Risk"]) >= 1
    /\ \A n \in RiskNames : Len(series[n]) >= 1
    /\ \A c \in DOMAIN sv : sv[c].pc \in {"idle", "done"}

\* ----------------------------------------------------------- shutdown claims
\* C16: stop_all_threads issues its stop requests in the order prediction
\* thread, acquisition, saving thread, and does nothing but set the stop
\* flags: no step of it ends a thread, and a thread ends only by a step of
\* its own, from the loop test, from the check between slices or out of its
\* callback.
C16_StopOrderFlagsOnly ==
    [][/\ acq'.stop => ~lt'["prediciton_thread"].is_running
       /\ ~lt'["saving_thread"].is_running => acq'.stop
       /\ (/\ main' # main
           /\ main.pc \in {"stop_prediction_thread", "stop_data_read",
                            "saving_thread.stop"}) =>
             /\ \A th \in Threads : lt'[th].pc = lt[th].pc
             /\ acq'.pc = acq.pc
       /\ \A th \in Threads :
             (lt[th].pc # "dead" /\ lt'[th].pc = "dead") =>
                 /\ main' = main
                 /\ lt[th].pc \in {"while", "check", "called"}
       /\ (acq.pc # "dead" /\ acq'.pc = "dead") => main' = main
      ]_vars

\* the three stop requests are issued and all three threads are still alive
C16_Witness ==
    /\ main.pc = "wait"
    /\ \A th \in Threads : ~lt[th].is_running /\ Alive(th)
    /\ acq.stop /\ acq.pc = "reading"

\* ------------------------------------------------------ concurrent saves
SaveInProgress(c) == sv[c].pc \in {"begin", "lines"}

\* C19: at most one execution of save_all_data is in progress at any time:
\* the save_all_data test() calls before stop_all_threads never overlaps a
\* save_all_data tick of the saving thread.
C19_OneSaveAtATime == ~(SaveInProgress("main") /\ SaveInProgress("saving_thread"))

\* -------------------------------------------------- an error in a callback
\* C20: an exception of the callback leaves run(): the step that takes the
\* thread out of the raising callback ends the thread, and from then on the
\* thread stays dead, begins no callback, runs no save_all_data and writes no
\* file, although its _is_running flag is still set.
C20_RaisedCallbackEndsScheduler ==
    [][/\ (/\ lt["saving_thread"].pc = "called"
           /\ CallbackRaised("saving_thread")
           /\ lt'["saving_thread"].pc # "called") =>
             lt'["saving_thread"].pc = "dead"
       /\ (hist["saving_thread"].calls >= 1 /\ lt["saving_thread"].pc = "dead") =>
             /\ lt'["saving_thread"].pc = "dead"
             /\ hist'["saving_thread"].calls = hist["saving_thread"].calls
             /\ sv'["saving_thread"] = NoSave
             /\ file' = file
       /\ hist'["saving_thread"].crashed =>
             /\ lt'["saving_thread"].pc = "dead"
             /\ hist'["saving_thread"].calls = 1
      ]_vars

\* the first tick of the saving thread raised, and two more intervals have
\* passed since without a tick, the flag still set
C20_Witness ==
    /\ hist["saving_thread"].crashed
    /\ lt["saving_thread"].is_running
    /\ hist["saving_thread"].calls = 1
    /\ ~file.exists
    /\ now >= hist["saving_thread"].call_at + 2 * lt["saving_thread"].wait_time

====
